---- MODULE Spec2Model ----
(***************************************************************************)
(* Model of src/ca_secretary_of_state/transform.py: the cli() pipeline     *)
(* that flattens the raw result documents, normalises every contest with   *)
(* ContestTransformer / CandidateResultTransformer under the correction    *)
(* table, and writes the timestamped file and latest.json.                 *)
(*                                                                         *)
(* Text is a sequence of one-character strings, so that strip, replace,    *)
(* lower, int, slugify and the substring test are computed character by    *)
(* character.  A JSON object (a Python dict) is a function whose DOMAIN is *)
(* its key set.  A float votes_percent rounded to 4 places is the integer  *)
(* count of 1e-4 units (0.6667 is 6667).                                   *)
(***************************************************************************)
EXTENDS Integers, Sequences, FiniteSets, TLC

VARIABLES pc, err, file_list, fidx, contest_list, scraped_datetime,
          csv, corrections, cidx, races, fs

vars == <<pc, err, file_list, fidx, contest_list, scraped_datetime,
          csv, corrections, cidx, races, fs>>

-----------------------------------------------------------------------------
(* Python values *)

\* None where a text value is expected (comparable with every text)
None == <<"None">>

\* None where a correction row is expected (_get_correction's KeyError branch)
NoRow == [none |-> TRUE]

\* a file that does not exist
Absent == [absent |-> TRUE]

-----------------------------------------------------------------------------
(* str methods and builtins used by the transformers *)

Digits == {"0", "1", "2", "3", "4", "5", "6", "7", "8", "9"}

DigitVal ==
    "0" :> 0 @@ "1" :> 1 @@ "2" :> 2 @@ "3" :> 3 @@ "4" :> 4 @@
    "5" :> 5 @@ "6" :> 6 @@ "7" :> 7 @@ "8" :> 8 @@ "9" :> 9

UpperToLower ==
    "A" :> "a" @@ "B" :> "b" @@ "C" :> "c" @@ "D" :> "d" @@ "E" :> "e" @@
    "F" :> "f" @@ "G" :> "g" @@ "H" :> "h" @@ "I" :> "i" @@ "J" :> "j" @@
    "K" :> "k" @@ "L" :> "l" @@ "M" :> "m" @@ "N" :> "n" @@ "O" :> "o" @@
    "P" :> "p" @@ "Q" :> "q" @@ "R" :> "r" @@ "S" :> "s" @@ "T" :> "t" @@
    "U" :> "u" @@ "V" :> "v" @@ "W" :> "w" @@ "X" :> "x" @@ "Y" :> "y" @@
    "Z" :> "z"

LowerLetters == {UpperToLower[c] : c \in DOMAIN UpperToLower}

Whitespace == {" ", "\t", "\n"}

\* str.lower()
lower(s) ==
    [i \in 1..Len(s) |-> IF s[i] \in DOMAIN UpperToLower THEN UpperToLower[s[i]] ELSE s[i]]

RECURSIVE lstrip(_)
lstrip(s) ==
    IF s # <<>> /\ Head(s) \in Whitespace THEN lstrip(Tail(s)) ELSE s

RECURSIVE rstrip(_)
rstrip(s) ==
    IF s # <<>> /\ s[Len(s)] \in Whitespace THEN rstrip(SubSeq(s, 1, Len(s) - 1)) ELSE s

\* str.strip()
strip(s) == rstrip(lstrip(s))

\* str.replace(",", "")
remove_commas(s) == SelectSeq(s, LAMBDA c : c # ",")

\* the text after int() has stripped it and taken an optional sign off
int_body(s) ==
    LET t == strip(s)
    IN  IF t # <<>> /\ Head(t) \in {"+", "-"} THEN Tail(t) ELSE t

\* int(s) does not raise ValueError: digits, with single underscores between digits
int_ok(s) ==
    LET b == int_body(s)
    IN  /\ b # <<>>
        /\ \A i \in 1..Len(b) :
              \/ b[i] \in Digits
              \/ /\ b[i] = "_"
                 /\ 1 < i /\ i < Len(b)
                 /\ b[i - 1] \in Digits /\ b[i + 1] \in Digits

RECURSIVE digits_value(_)
digits_value(b) ==
    IF b = <<>> THEN 0
    ELSE IF b[Len(b)] = "_" THEN digits_value(SubSeq(b, 1, Len(b) - 1))
    ELSE 10 * digits_value(SubSeq(b, 1, Len(b) - 1)) + DigitVal[b[Len(b)]]

\* int(s), for a text int_ok accepts
int_value(s) ==
    LET t == strip(s)
    IN  IF t # <<>> /\ Head(t) = "-" THEN 0 - digits_value(int_body(s))
        ELSE digits_value(int_body(s))

\* a in b, for two texts
contains(b, a) ==
    \E i \in 0..(Len(b) - Len(a)) : SubSeq(b, i + 1, i + Len(a)) = a

\* round(votes / vote_total, 4) for vote_total > 0, in units of 1e-4:
\* the nearest unit, an exact tie going to the even one
round4(votes, vote_total) ==
    LET num == 10000 * votes
        lo  == num \div vote_total
        rem == num - lo * vote_total
    IN  IF 2 * rem < vote_total THEN lo
        ELSE IF 2 * rem > vote_total THEN lo + 1
        ELSE IF lo % 2 = 0 THEN lo ELSE lo + 1

\* slugify(): lower-case, every run of characters that are not letters or
\* digits becomes one hyphen, leading and trailing hyphens dropped
SlugChar(c) == IF c \in LowerLetters \cup Digits THEN c ELSE "-"

RECURSIVE squeeze(_)
squeeze(s) ==
    IF Len(s) < 2 THEN s
    ELSE IF s[1] = "-" /\ s[2] = "-" THEN squeeze(Tail(s))
    ELSE <<s[1]>> \o squeeze(Tail(s))

RECURSIVE trim_hyphens(_)
trim_hyphens(s) ==
    IF s # <<>> /\ Head(s) = "-" THEN trim_hyphens(Tail(s))
    ELSE IF s # <<>> /\ s[Len(s)] = "-" THEN trim_hyphens(SubSeq(s, 1, Len(s) - 1))
    ELSE s

slugify(s) ==
    LET l == lower(s)
    IN  trim_hyphens(squeeze([i \in 1..Len(l) |-> SlugChar(l[i])]))

-----------------------------------------------------------------------------
(* dict helpers *)

\* d[k] = v
SetKey(d, k, v) == (k :> v) @@ d

\* d.get(k, default)
Get(d, k, default) == IF k \in DOMAIN d THEN d[k] ELSE default

\* bool(x) of a text or None
Truthy(x) == x # <<>> /\ x # None

RECURSIVE SumSeq(_)
SumSeq(s) == IF s = <<>> THEN 0 ELSE Head(s) + SumSeq(Tail(s))

-----------------------------------------------------------------------------
(* get_corrections: the last row of a raw_name wins *)

get_corrections_first_wins(rows) ==
    [k \in {rows[i].raw_name : i \in 1..Len(rows)} |->
        rows[CHOOSE i \in 1..Len(rows) :
                /\ rows[i].raw_name = k
                /\ \A j \in 1..Len(rows) : rows[j].raw_name = k => j >= i]]

get_corrections(rows) ==
    [k \in {rows[i].raw_name : i \in 1..Len(rows)} |->
        rows[CHOOSE i \in 1..Len(rows) :
                /\ rows[i].raw_name = k
                /\ \A j \in 1..Len(rows) : rows[j].raw_name = k => j <= i]]

-----------------------------------------------------------------------------
(* Record Flattener: the body of the loop over file_list.  A result is     *)
(* [raises |-> FALSE, contests |-> ...] or [raises |-> TRUE, error |-> ...] *)

Raise(e) == [raises |-> TRUE, error |-> e]

RetainPrefix ==
    <<"R", "e", "t", "a", "i", "n", " ", "S", "u", "p", "r", "e", "m", "e", " ",
      "C", "o", "u", "r", "t", " ", "J", "u", "s", "t", "i", "c", "e", " ">>

PropositionPrefix ==
    <<"P", "r", "o", "p", "o", "s", "i", "t", "i", "o", "n", " ">>

YesNoCandidates(race) ==
    << [Name |-> <<"Y", "e", "s">>, Votes |-> race.yesVotes],
       [Name |-> <<"N", "o">>, Votes |-> race.noVotes] >>

supreme_court_race(raw_data, race) ==
    [raceTitle  |-> RetainPrefix \o race.Name,
     Reporting  |-> raw_data.Reporting,
     candidates |-> YesNoCandidates(race)]

ballot_measure_race(raw_data, race) ==
    [raceTitle  |-> PropositionPrefix \o race.Number \o <<":", " ">> \o race.Name,
     Reporting  |-> raw_data.Reporting,
     candidates |-> YesNoCandidates(race)]

\* the supreme-court category is tested before the 'races' key
flatten_category_first(file) ==
    LET raw_data == file.data
        slug     == file.category
    IN  IF slug = "supreme-court" /\ "supreme-court" \in DOMAIN raw_data
        THEN [raises |-> FALSE,
              contests |-> [i \in 1..Len(raw_data["supreme-court"]) |->
                              supreme_court_race(raw_data, raw_data["supreme-court"][i])]]
        ELSE IF "races" \in DOMAIN raw_data
        THEN [raises |-> FALSE, contests |-> raw_data.races]
        ELSE IF slug = "ballot-measures"
        THEN IF ~ ({"ballot-measures", "Reporting"} \subseteq DOMAIN raw_data)
             THEN Raise("KeyError")
             ELSE [raises |-> FALSE,
                   contests |-> [i \in 1..Len(raw_data["ballot-measures"]) |->
                                   ballot_measure_race(raw_data, raw_data["ballot-measures"][i])]]
        ELSE [raises |-> FALSE, contests |-> <<raw_data>>]

flatten(file) ==
    LET raw_data == file.data
        slug     == file.category
    IN  IF "races" \in DOMAIN raw_data
        THEN [raises |-> FALSE, contests |-> raw_data.races]
        ELSE IF slug = "supreme-court"
        THEN IF ~ ({"supreme-court", "Reporting"} \subseteq DOMAIN raw_data)
                \/ \E i \in 1..Len(raw_data["supreme-court"]) :
                      ~ ({"Name", "yesVotes", "noVotes"}
                            \subseteq DOMAIN raw_data["supreme-court"][i])
             THEN Raise("KeyError")
             ELSE [raises |-> FALSE,
                   contests |-> [i \in 1..Len(raw_data["supreme-court"]) |->
                                   supreme_court_race(raw_data, raw_data["supreme-court"][i])]]
        ELSE IF slug = "ballot-measures"
        THEN IF ~ ({"ballot-measures", "Reporting"} \subseteq DOMAIN raw_data)
                \/ \E i \in 1..Len(raw_data["ballot-measures"]) :
                      ~ ({"Number", "Name", "yesVotes", "noVotes"}
                            \subseteq DOMAIN raw_data["ballot-measures"][i])
             THEN Raise("KeyError")
             ELSE [raises |-> FALSE,
                   contests |-> [i \in 1..Len(raw_data["ballot-measures"]) |->
                                   ballot_measure_race(raw_data, raw_data["ballot-measures"][i])]]
        ELSE [raises |-> FALSE, contests |-> <<raw_data>>]

-----------------------------------------------------------------------------
(* ContestTransformer and CandidateResultTransformer *)

\* ContestTransformer.clean_votes: [raises |-> FALSE, value |-> int] or a ValueError
clean_votes(value) ==
    LET s == remove_commas(strip(value))
    IN  IF int_ok(s) THEN [raises |-> FALSE, value |-> int_value(s)]
        ELSE Raise("ValueError")

CandidateResultTransformer_clean_votes(value) ==
    LET s == remove_commas(strip(value))
    IN  IF int_ok(s) THEN [raises |-> FALSE, value |-> int_value(s)]
        ELSE Raise("ValueError")

\* the KeyError of a missing raceTitle is caught like that of a missing row
_get_correction(raw, corr) ==
    IF "raceTitle" \in DOMAIN raw /\ raw.raceTitle \in DOMAIN corr
    THEN corr[raw.raceTitle]
    ELSE NoRow

include_ignores_table(raw, corr) == [raises |-> FALSE, value |-> TRUE]

\* None.lower() is an AttributeError
include(raw, corr) ==
    LET correction == _get_correction(raw, corr)
    IN  IF correction = NoRow THEN [raises |-> FALSE, value |-> TRUE]
        ELSE IF correction.include = None THEN Raise("AttributeError")
        ELSE [raises |-> FALSE,
              value |-> lower(correction.include) = <<"y", "e", "s">>]

correct_name_always_clean(raw, corr) ==
    LET correction == _get_correction(raw, corr)
    IN  IF correction = NoRow THEN raw.raceTitle ELSE correction.clean_name

correct_name(raw, corr) ==
    LET correction == _get_correction(raw, corr)
    IN  IF correction = NoRow THEN raw.raceTitle
        ELSE IF Truthy(correction.clean_name) THEN correction.clean_name
        ELSE raw.raceTitle

correct_description(raw, corr) ==
    LET correction == _get_correction(raw, corr)
    IN  IF correction = NoRow THEN None
        ELSE IF Truthy(correction.clean_description) THEN correction.clean_description
        ELSE None

correct_geography(raw, corr) ==
    LET correction == _get_correction(raw, corr)
    IN  IF correction = NoRow THEN None
        ELSE IF Truthy(correction.clean_geography) THEN correction.clean_geography
        ELSE None

\* incumbent values: "True", "False", or "None" for null / absent
correct_incumbent_only_marks(raw, corr, candidate_list) ==
    LET correction == _get_correction(raw, corr)
    IN  IF correction # NoRow /\ Truthy(correction.incumbent)
        THEN [i \in 1..Len(candidate_list) |->
                IF contains(correction.incumbent, candidate_list[i].Name)
                THEN SetKey(candidate_list[i], "incumbent", "True")
                ELSE candidate_list[i]]
        ELSE candidate_list

correct_incumbent(raw, corr, candidate_list) ==
    LET correction == _get_correction(raw, corr)
    IN  IF correction # NoRow /\ Truthy(correction.incumbent)
        THEN [i \in 1..Len(candidate_list) |->
                SetKey(candidate_list[i], "incumbent",
                       IF contains(correction.incumbent, candidate_list[i].Name)
                       THEN "True" ELSE "False")]
        ELSE candidate_list

\* lines 134-140: the candidate dicts with votes_percent set
votes_percent_truncated(candidate_list) ==
    LET vote_total == SumSeq([i \in 1..Len(candidate_list) |->
                                clean_votes(candidate_list[i].Votes).value])
    IN  [i \in 1..Len(candidate_list) |->
            SetKey(candidate_list[i], "votes_percent",
                   IF vote_total > 0
                   THEN (10000 * clean_votes(candidate_list[i].Votes).value) \div vote_total
                   ELSE 0)]

set_votes_percent(candidate_list) ==
    LET vote_total == SumSeq([i \in 1..Len(candidate_list) |->
                                clean_votes(candidate_list[i].Votes).value])
    IN  [i \in 1..Len(candidate_list) |->
            SetKey(candidate_list[i], "votes_percent",
                   IF vote_total > 0
                   THEN round4(clean_votes(candidate_list[i].Votes).value, vote_total)
                   ELSE 0)]

CandidateResultTransformer_transform_data(raw) ==
    [name          |-> raw.Name,
     party         |-> Get(raw, "Party", None),
     votes         |-> CandidateResultTransformer_clean_votes(raw.Votes).value,
     votes_percent |-> raw.votes_percent,
     incumbent     |-> Get(raw, "incumbent", "None")]

\* schema.CandidateResult / schema.Contest: the required fields are not null
CandidateResult_valid(d) == d.name # None /\ d.votes \in Int /\ d.votes_percent \in Int

Contest_valid(d) == d.name # None /\ d.slug # None /\ d.precincts_reporting # None

\* [raises |-> FALSE, data |-> the Contest dict, candidates |-> the raw candidate
\*  dicts as the call leaves them (incumbent and votes_percent are set in place)]
ContestTransformer_transform_data(raw, corr) ==
    IF ~ ({"raceTitle", "Reporting", "candidates"} \subseteq DOMAIN raw)
    THEN Raise("KeyError")
    ELSE IF \E i \in 1..Len(raw.candidates) :
                ~ ({"Name", "Votes"} \subseteq DOMAIN raw.candidates[i])
    THEN Raise("KeyError")
    ELSE IF \E i \in 1..Len(raw.candidates) : clean_votes(raw.candidates[i].Votes).raises
    THEN Raise("ValueError")
    ELSE LET candidate_list == set_votes_percent(correct_incumbent(raw, corr, raw.candidates))
             dumped == [i \in 1..Len(candidate_list) |->
                          CandidateResultTransformer_transform_data(candidate_list[i])]
         IN  IF \E i \in 1..Len(candidate_list) :
                    CandidateResultTransformer_clean_votes(candidate_list[i].Votes).raises
             THEN Raise("ValueError")
             ELSE IF \E i \in 1..Len(dumped) : ~ CandidateResult_valid(dumped[i])
             THEN Raise("ValidationError")
             ELSE [raises     |-> FALSE,
                   candidates |-> candidate_list,
                   data       |-> [name                |-> correct_name(raw, corr),
                                   slug                |-> slugify(raw.raceTitle),
                                   description         |-> correct_description(raw, corr),
                                   geography           |-> correct_geography(raw, corr),
                                   precincts_reporting |-> raw.Reporting,
                                   candidates          |-> dumped]]

\* schema.BaseTransformer: the constructor keeps raw and corrections and
\* transforms at once; dump() loads the transformed dict through the schema
BaseTransformer_init(raw, corr) == ContestTransformer_transform_data(raw, corr)

BaseTransformer_dump(transformed) ==
    IF Contest_valid(transformed) THEN [raises |-> FALSE, value |-> transformed]
    ELSE Raise("ValidationError")

-----------------------------------------------------------------------------
(* utils: the clock and the JSON writer.  The disk is the latest.json slot *)
(* and the set of timestamped files, each named by its scraped_datetime.   *)

\* later than the run that wrote the latest.json found on disk
utils_now(disk) ==
    IF disk.latest = Absent THEN 1 ELSE disk.latest.scraped_datetime + 1

write_timestamped(disk, obj) ==
    [disk EXCEPT !.stamped =
        {b \in disk.stamped : b.scraped_datetime # obj.scraped_datetime} \cup {obj}]

write_latest(disk, obj) == [disk EXCEPT !.latest = obj]

transformed_list == [scraped_datetime |-> scraped_datetime, races |-> races]

-----------------------------------------------------------------------------
(* Inputs: texts *)

T_Gov == <<"G", "o", "v">>
T_gov == <<"g", "o", "v">>
T_Sen == <<"S", "e", "n", " ", "4">>
N_Al  == <<"A", "l">>
N_Bo  == <<"B", "o">>
N_Cy  == <<"C", "y">>
N_Wu  == <<"W", "u">>
N_Tax == <<"T", "a", "x">>
P_Dem == <<"D", "e", "m">>
Clean_Governor == <<"G", "o", "v", "e", "r", "n", "o", "r">>
Pct80 == <<"8", "0", "%">>
Pct10 == <<"1", "0", "%">>
Pct20 == <<"2", "0", "%">>
Pct30 == <<"3", "0", "%">>
Pct40 == <<"4", "0", "%">>

(* Inputs: raw contests, retention / measure entries and documents *)

C_Gov ==
    [raceTitle  |-> T_Gov,
     Reporting  |-> Pct10,
     candidates |-> << [Name |-> N_Al, Party |-> P_Dem, Votes |-> <<"1", ",", "2", "0", "0">>],
                       [Name |-> N_Bo, Votes |-> <<" ", "6", "0", "0", " ">>, incumbent |-> "True"],
                       [Name |-> N_Cy, Votes |-> <<"2", "0", "0">>] >>]

C_gov ==
    [raceTitle  |-> T_gov,
     Reporting  |-> Pct20,
     candidates |-> << [Name |-> N_Al, Votes |-> <<"0">>],
                       [Name |-> N_Bo, Votes |-> <<"0">>] >>]

C_Sen ==
    [raceTitle  |-> T_Sen,
     Reporting  |-> Pct30,
     candidates |-> << [Name |-> N_Al, Votes |-> <<"1">>],
                       [Name |-> N_Bo, Votes |-> <<"1">>],
                       [Name |-> N_Cy, Votes |-> <<"1">>] >>]

\* a vote count that is no integer
C_Bad ==
    [raceTitle  |-> T_Gov,
     Reporting  |-> Pct40,
     candidates |-> << [Name |-> N_Al, Votes |-> <<"7">>],
                       [Name |-> N_Bo, Votes |-> <<"n", "/", "a">>] >>]

E_Wu == [Name |-> N_Wu, yesVotes |-> <<"1", "0", "0">>, noVotes |-> <<"5", "0">>]
E_Al == [Name |-> N_Al, yesVotes |-> <<"3">>, noVotes |-> <<"4">>]
E_Tax == [Number |-> <<"1">>, Name |-> N_Tax, yesVotes |-> <<"1", "0">>, noVotes |-> <<"0">>]

D_races == [category |-> "governor", readable |-> TRUE,
            data |-> [races |-> <<C_Gov, C_gov>>]]

D_court_races ==
    [category |-> "supreme-court", readable |-> TRUE,
     data |-> ("races" :> <<C_Sen>>) @@ ("supreme-court" :> <<E_Wu>>)
                 @@ ("Reporting" :> Pct80)]

D_court ==
    [category |-> "supreme-court", readable |-> TRUE,
     data |-> ("supreme-court" :> <<E_Wu, E_Al>>) @@ ("Reporting" :> Pct80)]

D_measures ==
    [category |-> "ballot-measures", readable |-> TRUE,
     data |-> ("ballot-measures" :> <<E_Tax>>) @@ ("Reporting" :> Pct40)]

\* the category's own list is missing
D_measures_nokey ==
    [category |-> "ballot-measures", readable |-> TRUE,
     data |-> ("supreme-court" :> <<E_Wu>>) @@ ("Reporting" :> Pct80)]

D_single == [category |-> "senate", readable |-> TRUE, data |-> C_Bad]

\* not JSON
D_unreadable == [category |-> "governor", readable |-> FALSE, data |-> <<>>]

Docs == {D_races, D_court_races, D_court, D_measures, D_measures_nokey,
         D_single, D_unreadable}

(* Inputs: rows of corrections.csv *)

Row(raw_name, inc, clean_name, incumbent) ==
    [raw_name |-> raw_name, include |-> inc, clean_name |-> clean_name,
     clean_description |-> <<>>, clean_geography |-> <<>>, incumbent |-> incumbent]

Rows ==
    { Row(T_Gov, <<"Y", "e", "s">>, Clean_Governor, N_Al),
      Row(T_Gov, <<"n", "o">>, <<>>, <<>>),
      Row(T_Sen, <<"Y", "E", "S">>, <<>>, <<"B", "o", ";", "C", "y">>),
      \* a short line: the DictReader fills the missing columns with None
      [raw_name |-> RetainPrefix \o N_Wu, include |-> None, clean_name |-> None,
       clean_description |-> None, clean_geography |-> None, incumbent |-> None] }

MaxFiles == 2
MaxRows == 2

SeqsUpTo(S, n) == UNION {[1..k -> S] : k \in 0..n}

NoFiles == [latest |-> Absent, stamped |-> {}]

EarlierBatch == [scraped_datetime |-> 0, races |-> <<>>]

EarlierRun == [latest |-> EarlierBatch, stamped |-> {EarlierBatch}]

-----------------------------------------------------------------------------
(* cli() *)

Init ==
    /\ pc = "flatten"
    /\ err = ""
    /\ file_list \in SeqsUpTo(Docs, MaxFiles)
    /\ fidx = 1
    /\ contest_list = <<>>
    /\ scraped_datetime = -1
    /\ csv = <<>>
    /\ corrections = <<>>
    /\ cidx = 0
    /\ races = <<>>
    /\ fs \in {NoFiles, EarlierRun}

\* an exception leaves cli(): the process ends
Fail(e) ==
    /\ pc' = "failed"
    /\ err' = e
    /\ UNCHANGED <<file_list, fidx, contest_list, scraped_datetime, csv,
                   corrections, cidx, races, fs>>

\* a document's contests are put in front of those read before
ReadFile_prepends ==
    /\ pc = "flatten"
    /\ fidx <= Len(file_list)
    /\ IF ~ file_list[fidx].readable THEN Fail("JSONDecodeError")
       ELSE LET r == flatten(file_list[fidx])
            IN  IF r.raises THEN Fail(r.error)
                ELSE /\ contest_list' = r.contests \o contest_list
                     /\ fidx' = fidx + 1
                     /\ UNCHANGED <<pc, err, file_list, scraped_datetime, csv,
                                    corrections, cidx, races, fs>>

\* lines 26-56: one iteration of the loop over file_list
ReadFile ==
    /\ pc = "flatten"
    /\ fidx <= Len(file_list)
    /\ IF ~ file_list[fidx].readable THEN Fail("JSONDecodeError")
       ELSE LET r == flatten(file_list[fidx])
            IN  IF r.raises THEN Fail(r.error)
                ELSE /\ contest_list' = contest_list \o r.contests
                     /\ fidx' = fidx + 1
                     /\ UNCHANGED <<pc, err, file_list, scraped_datetime, csv,
                                    corrections, cidx, races, fs>>

\* latest.json is written as soon as the batch is stamped
Stamp_writes_early ==
    /\ pc = "flatten"
    /\ fidx > Len(file_list)
    /\ scraped_datetime' = utils_now(fs)
    /\ races' = <<>>
    /\ pc' = "corrections"
    /\ fs' = write_latest(fs, [scraped_datetime |-> utils_now(fs), races |-> <<>>])
    /\ UNCHANGED <<err, file_list, fidx, contest_list, csv, corrections, cidx>>

\* lines 59-62
Stamp ==
    /\ pc = "flatten"
    /\ fidx > Len(file_list)
    /\ scraped_datetime' = utils_now(fs)
    /\ races' = <<>>
    /\ pc' = "corrections"
    /\ UNCHANGED <<err, file_list, fidx, contest_list, csv, corrections, cidx, fs>>

\* line 64: corrections.csv is read here (csv keeps the rows read), or is missing
LoadCorrections ==
    /\ pc = "corrections"
    /\ \/ \E rows \in SeqsUpTo(Rows, MaxRows) :
             /\ csv' = rows
             /\ corrections' = get_corrections(rows)
             /\ cidx' = 1
             /\ pc' = "normalize"
             /\ UNCHANGED <<err, file_list, fidx, contest_list, scraped_datetime,
                            races, fs>>
       \/ Fail("FileNotFoundError")

\* a contest that raises is skipped
NormalizeContest_isolating ==
    /\ pc = "normalize"
    /\ cidx <= Len(contest_list)
    /\ LET contest == contest_list[cidx]
           obj     == BaseTransformer_init(contest, corrections)
           inc     == include(contest, corrections)
       IN  /\ cidx' = cidx + 1
           /\ IF obj.raises \/ inc.raises \/ ~ inc.value
              THEN UNCHANGED <<contest_list, races>>
              ELSE /\ contest_list' = [contest_list EXCEPT ![cidx].candidates = obj.candidates]
                   /\ races' = Append(races, obj.data)
           /\ UNCHANGED <<pc, err, file_list, fidx, scraped_datetime, csv, corrections, fs>>

\* lines 66-75: one iteration of the loop over contest_list
NormalizeContest ==
    /\ pc = "normalize"
    /\ cidx <= Len(contest_list)
    /\ LET contest == contest_list[cidx]
           obj     == BaseTransformer_init(contest, corrections)
           inc     == include(contest, corrections)
       IN  IF obj.raises THEN Fail(obj.error)
           ELSE IF inc.raises THEN Fail(inc.error)
           ELSE IF ~ inc.value
           THEN /\ contest_list' = [contest_list EXCEPT ![cidx].candidates = obj.candidates]
                /\ cidx' = cidx + 1
                /\ UNCHANGED <<pc, err, file_list, fidx, scraped_datetime, csv,
                               corrections, races, fs>>
           ELSE LET d == BaseTransformer_dump(obj.data)
                IN  IF d.raises THEN Fail(d.error)
                    ELSE /\ contest_list' =
                               [contest_list EXCEPT ![cidx].candidates = obj.candidates]
                         /\ races' = Append(races, d.value)
                         /\ cidx' = cidx + 1
                         /\ UNCHANGED <<pc, err, file_list, fidx, scraped_datetime, csv,
                                        corrections, fs>>

\* the timestamped file is not written
WriteTimestamped_skipped ==
    /\ pc = "normalize"
    /\ cidx > Len(contest_list)
    /\ pc' = "write_latest"
    /\ UNCHANGED <<err, file_list, fidx, contest_list, scraped_datetime, csv,
                   corrections, cidx, races, fs>>

\* lines 77-80; the write may fail
WriteTimestamped ==
    /\ pc = "normalize"
    /\ cidx > Len(contest_list)
    /\ \/ /\ fs' = write_timestamped(fs, transformed_list)
          /\ pc' = "write_latest"
          /\ UNCHANGED <<err, file_list, fidx, contest_list, scraped_datetime, csv,
                         corrections, cidx, races>>
       \/ Fail("OSError")

\* lines 82-84; the write may fail
WriteLatest ==
    /\ pc = "write_latest"
    /\ \/ /\ fs' = write_latest(fs, transformed_list)
          /\ pc' = "done"
          /\ UNCHANGED <<err, file_list, fidx, contest_list, scraped_datetime, csv,
                         corrections, cidx, races>>
       \/ Fail("OSError")

Next ==
    \/ ReadFile
    \/ Stamp
    \/ LoadCorrections
    \/ NormalizeContest
    \/ WriteTimestamped
    \/ WriteLatest

Spec == Init /\ [][Next]_vars

-----------------------------------------------------------------------------
(* The normalisation of one contest, over a wider range of vote counts:    *)
(* cli() from the loop over contest_list on, for a single-contest document *)
(* and an empty correction table.                                          *)

VoteTexts == { <<"1">>, <<"-", "5">>, <<"1", ",", "0">> }

MaxCands == 6

ContestOf(votes) ==
    [raceTitle  |-> T_Sen,
     Reporting  |-> Pct30,
     candidates |-> [i \in 1..Len(votes) |-> [Name |-> N_Al, Votes |-> votes[i]]]]

InitContest ==
    /\ pc = "normalize"
    /\ err = ""
    /\ file_list \in {<<[category |-> "senate", readable |-> TRUE, data |-> ContestOf(v)]>> :
                        v \in SeqsUpTo(VoteTexts, MaxCands)}
    /\ fidx = 2
    /\ contest_list = <<file_list[1].data>>
    /\ fs \in {NoFiles, EarlierRun}
    /\ scraped_datetime = utils_now(fs)
    /\ csv = <<>>
    /\ corrections = get_corrections(<<>>)
    /\ cidx = 1
    /\ races = <<>>

NextContest ==
    \/ NormalizeContest
    \/ WriteTimestamped
    \/ WriteLatest

SpecContest == InitContest /\ [][NextContest]_vars

-----------------------------------------------------------------------------
(* Properties *)

Abs(x) == IF x < 0 THEN 0 - x ELSE x

Yes == <<"y", "e", "s">>

\* the rows of corrections.csv keyed by a title, and the one the lookup gives
RowsFor(title) == {i \in 1..Len(csv) : csv[i].raw_name = title}

LastRow(title) == csv[CHOOSE i \in RowsFor(title) : \A j \in RowsFor(title) : j <= i]

\* what the correction table says of a raw contest: no row, or include = "yes"
Keeps(c) ==
    \/ RowsFor(c.raceTitle) = {}
    \/ lower(LastRow(c.raceTitle).include) = Yes

\* the contests the loop over contest_list has handled
Handled == IF cidx >= 1 THEN cidx - 1 ELSE 0

KeptIdx == SelectSeq([i \in 1..Handled |-> i], LAMBDA i : Keeps(contest_list[i]))

\* an output contest that comes from the raw contest c
Origin(out, c) ==
    /\ out.slug = slugify(c.raceTitle)
    /\ out.precincts_reporting = c.Reporting
    /\ Len(out.candidates) = Len(c.candidates)
    /\ \A j \in 1..Len(c.candidates) : out.candidates[j].name = c.candidates[j].Name

Present(c) == \E k \in 1..Len(races) : Origin(races[k], c)

\* C1: a handled contest is in races only if the correction table has no row
\* for its exact raceTitle or the row's include, lower-cased, is "yes"; a
\* contest with no row is always in races.
C1_Inclusion ==
    \A i \in 1..Handled :
        LET c == contest_list[i]
        IN  /\ Present(c) =>
                \/ RowsFor(c.raceTitle) = {}
                \/ lower(LastRow(c.raceTitle).include) = Yes
            /\ RowsFor(c.raceTitle) = {} => Present(c)

C1_Witness ==
    /\ pc = "done"
    /\ \E i \in 1..Len(contest_list) :
          RowsFor(contest_list[i].raceTitle) # {} /\ ~ Present(contest_list[i])
    /\ \E i \in 1..Len(contest_list) :
          RowsFor(contest_list[i].raceTitle) = {} /\ Present(contest_list[i])
    /\ \E i \in 1..Len(contest_list) :
          RowsFor(contest_list[i].raceTitle) # {} /\ Present(contest_list[i])

\* every contest of contest_list normalises without an exception
AllNormalized ==
    \A i \in 1..Len(contest_list) :
        /\ ~ BaseTransformer_init(contest_list[i], corrections).raises
        /\ ~ include(contest_list[i], corrections).raises

\* C2: a file on disk changes only in the write steps of a run in which every
\* document was read and flattened, the corrections were loaded and every
\* contest was normalised without error; a failure before the write step
\* leaves the timestamped files and latest.json as they were.
C2_NoWriteBeforeSuccess ==
    [][fs' # fs =>
         /\ pc \in {"normalize", "write_latest"}
         /\ err = ""
         /\ fidx > Len(file_list)
         /\ cidx > Len(contest_list)
         /\ AllNormalized]_vars

C2_Witness ==
    /\ pc = "failed"
    /\ err \in {"ValueError", "AttributeError"}
    /\ cidx > 1
    /\ races # <<>>
    /\ fs = EarlierRun

\* C3: latest.json holds this run's batch only when the timestamped file of
\* the run exists with the same content; the timestamped file is on disk when
\* the run comes to write latest.json, and after the run both hold the batch.
C3_LatestMatchesTimestamped ==
    /\ (fs.latest # Absent /\ fs.latest.scraped_datetime = scraped_datetime) =>
          /\ fs.latest = transformed_list
          /\ transformed_list \in fs.stamped
    /\ pc = "write_latest" => transformed_list \in fs.stamped
    /\ pc = "done" => fs.latest = transformed_list /\ transformed_list \in fs.stamped

C3_Witness ==
    /\ pc = "done"
    /\ Len(races) >= 2
    /\ fs.latest = transformed_list
    /\ EarlierBatch \in fs.stamped

VoteSum(out) == SumSeq([j \in 1..Len(out.candidates) |-> out.candidates[j].votes])

PctSum(out) == SumSeq([j \in 1..Len(out.candidates) |-> out.candidates[j].votes_percent])

\* C4 as stated: in a contest whose votes sum to more than 0, the
\* votes_percent values sum to 1.0 within 1e-4, for any number of candidates.
C4_SumWithinOneUnit ==
    \A k \in 1..Len(races) :
        VoteSum(races[k]) > 0 => Abs(PctSum(races[k]) - 10000) <= 1

\* C4 amended: in a contest of n candidates whose votes sum to more than 0,
\* the votes_percent values sum to 1.0 within n * 0.5e-4.
C4_SumWithinHalfUnitEach ==
    \A k \in 1..Len(races) :
        VoteSum(races[k]) > 0 =>
            2 * Abs(PctSum(races[k]) - 10000) <= Len(races[k].candidates)

C4_Witness ==
    \E k \in 1..Len(races) :
        /\ VoteSum(races[k]) > 0
        /\ Len(races[k].candidates) >= 3
        /\ PctSum(races[k]) # 10000

\* C5: every emitted candidate has votes >= 0 and votes_percent in [0, 1].
C5_VotesAndPercentInRange ==
    \A k \in 1..Len(races) :
        \A j \in 1..Len(races[k].candidates) :
            /\ races[k].candidates[j].votes >= 0
            /\ races[k].candidates[j].votes_percent >= 0
            /\ races[k].candidates[j].votes_percent <= 10000

\* C6: the name of an output contest is the clean_name of the correction row
\* of its raw title when there is a row and its clean_name is not empty, and
\* the raw title otherwise; its slug is the slug of the raw title, so equal
\* raw titles give equal slugs.
C6_NameAndSlug ==
    /\ Len(races) = Len(KeptIdx)
    /\ \A k \in 1..Len(races) :
          LET title == contest_list[KeptIdx[k]].raceTitle
          IN  /\ races[k].name =
                    IF RowsFor(title) # {}
                       /\ LastRow(title).clean_name \notin {<<>>, None}
                    THEN LastRow(title).clean_name
                    ELSE title
              /\ races[k].slug = slugify(title)
    /\ \A k1, k2 \in 1..Len(races) :
          contest_list[KeptIdx[k1]].raceTitle = contest_list[KeptIdx[k2]].raceTitle
              => races[k1].slug = races[k2].slug

C6_Witness ==
    /\ pc = "done"
    /\ \E k \in 1..Len(races) :
          /\ races[k].name = Clean_Governor
          /\ races[k].slug = <<"g", "o", "v">>
    /\ \E k \in 1..Len(races) :
          /\ RowsFor(contest_list[KeptIdx[k]].raceTitle) # {}
          /\ races[k].name = T_Sen
          /\ races[k].slug = <<"s", "e", "n", "-", "4">>

\* the contests one document adds to contest_list, by the four rules
YesNoOf(entry, c) ==
    /\ Len(c.candidates) = 2
    /\ c.candidates[1] = [Name |-> <<"Y", "e", "s">>, Votes |-> entry.yesVotes]
    /\ c.candidates[2] = [Name |-> <<"N", "o">>, Votes |-> entry.noVotes]

FlattenedBy(file, seg) ==
    LET d == file.data
    IN  IF "races" \in DOMAIN d THEN seg = d.races
        ELSE IF file.category = "supreme-court"
        THEN /\ Len(seg) = Len(d["supreme-court"])
             /\ \A i \in 1..Len(seg) :
                   /\ seg[i].raceTitle = RetainPrefix \o d["supreme-court"][i].Name
                   /\ seg[i].Reporting = d.Reporting
                   /\ YesNoOf(d["supreme-court"][i], seg[i])
        ELSE IF file.category = "ballot-measures"
        THEN /\ Len(seg) = Len(d["ballot-measures"])
             /\ \A i \in 1..Len(seg) :
                   /\ seg[i].raceTitle =
                         PropositionPrefix \o d["ballot-measures"][i].Number
                             \o <<":", " ">> \o d["ballot-measures"][i].Name
                   /\ seg[i].Reporting = d.Reporting
                   /\ YesNoOf(d["ballot-measures"][i], seg[i])
        ELSE seg = <<d>>

\* C7: each document read adds to contest_list the contests of exactly one
\* rule, in this priority: its 'races' list if it has the key; else one
\* Yes/No contest per supreme-court entry; else one per ballot-measures
\* entry; else the document itself.
C7_FlattenRules ==
    [][(pc = "flatten" /\ fidx <= Len(file_list) /\ pc' # "failed") =>
         /\ Len(contest_list') >= Len(contest_list)
         /\ SubSeq(contest_list', 1, Len(contest_list)) = contest_list
         /\ FlattenedBy(file_list[fidx],
                        SubSeq(contest_list', Len(contest_list) + 1, Len(contest_list')))]_vars

C7_Witness ==
    /\ pc = "corrections"
    /\ \E f \in 1..Len(file_list) :
          /\ file_list[f].category = "supreme-court"
          /\ "races" \in DOMAIN file_list[f].data
    /\ \E f \in 1..Len(file_list) :
          /\ file_list[f].category \in {"supreme-court", "ballot-measures"}
          /\ "races" \notin DOMAIN file_list[f].data
    /\ Len(contest_list) >= 2

IncumbentOf(c) == Get(c, "incumbent", "None")

\* the correction row of the contest a step normalises names incumbents
NamesIncumbents(c) ==
    /\ RowsFor(c.raceTitle) # {}
    /\ LastRow(c.raceTitle).incumbent \notin {<<>>, None}

\* a step of the loop over contest_list that normalised contest cidx
Normalized == pc = "normalize" /\ cidx <= Len(contest_list) /\ cidx' = cidx + 1

\* C8 as stated: with an incumbent field in the correction row, a candidate
\* whose name is in the field becomes incumbent=true and every other
\* candidate keeps its incumbent value; without one nothing changes.
C8_OthersKeepIncumbent ==
    [][Normalized =>
         LET before == contest_list[cidx].candidates
             after  == contest_list'[cidx].candidates
             c      == contest_list[cidx]
         IN  \A j \in 1..Len(before) :
                 IF NamesIncumbents(c)
                    /\ contains(LastRow(c.raceTitle).incumbent, before[j].Name)
                 THEN IncumbentOf(after[j]) = "True"
                 ELSE /\ IncumbentOf(after[j]) = IncumbentOf(before[j])
                      /\ ("incumbent" \in DOMAIN after[j]) = ("incumbent" \in DOMAIN before[j])]_vars

\* C8 amended: with an incumbent field in the correction row, a candidate
\* whose name is in the field becomes incumbent=true and every other
\* candidate becomes incumbent=false; without one nothing changes.
C8_OthersBecomeFalse ==
    [][Normalized =>
         LET before == contest_list[cidx].candidates
             after  == contest_list'[cidx].candidates
             c      == contest_list[cidx]
         IN  \A j \in 1..Len(before) :
                 IF NamesIncumbents(c)
                 THEN IncumbentOf(after[j]) =
                         IF contains(LastRow(c.raceTitle).incumbent, before[j].Name)
                         THEN "True" ELSE "False"
                 ELSE /\ IncumbentOf(after[j]) = IncumbentOf(before[j])
                      /\ ("incumbent" \in DOMAIN after[j]) = ("incumbent" \in DOMAIN before[j])]_vars

C8_Witness ==
    /\ pc = "done"
    /\ \E i \in 1..Len(contest_list) :
          /\ NamesIncumbents(contest_list[i])
          /\ \E j \in 1..Len(contest_list[i].candidates) :
                IncumbentOf(contest_list[i].candidates[j]) = "True"
          /\ \E j \in 1..Len(contest_list[i].candidates) :
                IncumbentOf(contest_list[i].candidates[j]) = "False"
    /\ \E i \in 1..Len(contest_list) :
          /\ ~ NamesIncumbents(contest_list[i])
          /\ \E j \in 1..Len(contest_list[i].candidates) :
                "incumbent" \notin DOMAIN contest_list[i].candidates[j]

\* a vote count that is no integer once stripped and rid of its commas
BadVotes(c) ==
    \E j \in 1..Len(c.candidates) : ~ int_ok(remove_commas(strip(c.candidates[j].Votes)))

BadContests == {i \in 1..Len(contest_list) : BadVotes(contest_list[i])}

\* C9: with an unparseable vote count in any flattened contest, excluded by
\* the correction table or not, the run never comes to the write step, writes
\* no file, and handles no contest beyond the first bad one.
C9_BadVotesAbort ==
    BadContests # {} =>
        /\ pc \notin {"write_latest", "done"}
        /\ ~ (pc = "normalize" /\ cidx > Len(contest_list))
        /\ fs \in {NoFiles, EarlierRun}
        /\ \A i \in BadContests : cidx <= i /\ Len(races) < i

C9_Witness ==
    /\ pc = "failed"
    /\ err = "ValueError"
    /\ cidx > 1
    /\ BadVotes(contest_list[cidx])
    /\ ~ Keeps(contest_list[cidx])
    /\ races # <<>>

\* the raw fields of a contest (normalising sets incumbent and votes_percent
\* in its candidate dicts, and leaves these alone)
RawKey(c) ==
    <<c.raceTitle, c.Reporting,
      [j \in 1..Len(c.candidates) |-> <<c.candidates[j].Name, c.candidates[j].Votes>>]>>

RECURSIVE FlattenAll(_)
FlattenAll(files) ==
    IF files = <<>> THEN <<>>
    ELSE FlattenAll(SubSeq(files, 1, Len(files) - 1)) \o flatten(files[Len(files)]).contests

\* C10: contest_list holds the contests of the documents read, in discovery
\* order and then in each document's order, and races holds one contest for
\* each included contest handled so far, in that order, and nothing else.
C10_OrderPreserved ==
    /\ LET all == FlattenAll(SubSeq(file_list, 1, fidx - 1))
       IN  /\ Len(contest_list) = Len(all)
           /\ \A i \in 1..Len(all) : RawKey(contest_list[i]) = RawKey(all[i])
    /\ Len(races) = Len(KeptIdx)
    /\ \A k \in 1..Len(races) : Origin(races[k], contest_list[KeptIdx[k]])

C10_Witness ==
    /\ pc = "done"
    /\ Len(file_list) = 2
    /\ file_list[1] # file_list[2]
    /\ Len(races) >= 2
    /\ Len(races) < Len(contest_list)
    /\ KeptIdx[1] > 1

====
